---- MODULE Spec2Model ----
(***************************************************************************)
(* Model of pywemo/ouimeaux_device/humidifier.py: the attribute decoder    *)
(* attribute_xml_to_dict and the Humidifier device facade.                 *)
(*                                                                         *)
(* Representation.                                                         *)
(*  - A piece of text is a sequence of one-character strings.  The text    *)
(*    of an empty XML element is Python's None, written <<>> here (the     *)
(*    element tree never yields an empty string for it).                   *)
(*  - An attribute blob is [quoted, body]: body is the sequence of         *)
(*    <attribute><name>..</name><value>..</value></attribute> chunks, each *)
(*    [name, text, closed] (closed = FALSE: the end tag is missing), and   *)
(*    quoted says whether the markup is written with &lt; and &gt;.        *)
(*  - A Python dict is a function whose DOMAIN is the set of its keys.     *)
(*  - An optional value is <<>> (None) or <<v>>.                           *)
(*  - A float is held in hundredths (42.5 is 4250).                        *)
(*  - A numeric argument of a setter is a fraction [n, d].                 *)
(***************************************************************************)
EXTENDS Integers, Sequences, FiniteSets, TLC

VARIABLES
    phase,        \* "new" until __init__ has returned, then "live"
    attributes,   \* Humidifier._attributes
    state,        \* Humidifier._state (inherited field), None or <<int>>
    call,         \* record of the last call made on the facade
    basePushed,   \* a push was delegated to the base handler at least once
    xml_blob,     \* decoder specification: the blob handed to the decoder
    decoded       \* decoder specification: None, or <<what the decoder did>>

vars == <<phase, attributes, state, call, basePushed, xml_blob, decoded>>

\* ------------------------------------------------------------------ bounds
\* longest blob handed to the decoder on its own
MaxAttrs == 2
\* longest blob the device returns or pushes to the facade
MaxFetched == 2

\* --------------------------------------------------------------- constants
\* class FanMode(IntEnum)
FanMode == [Off |-> 0, Minimum |-> 1, Low |-> 2, Medium |-> 3, High |-> 4, Maximum |-> 5]
\* class WaterLevel(IntEnum)
WaterLevel == [Empty |-> 0, Low |-> 1, Good |-> 2]
\* the device's maximum filter usage, float(60480)
FilterLifeMax == 60480

None == <<>>
Some(v) == <<v>>
EmptyDict == <<>>

\* ------------------------------------------------------------------- text
DigitChars == {"0", "1", "2", "3", "4", "5", "6", "7", "8", "9"}
DigitValue == [c \in DigitChars |->
    CASE c = "0" -> 0 [] c = "1" -> 1 [] c = "2" -> 2 [] c = "3" -> 3 [] c = "4" -> 4
      [] c = "5" -> 5 [] c = "6" -> 6 [] c = "7" -> 7 [] c = "8" -> 8 [] c = "9" -> 9]
DigitChar == [d \in 0..9 |-> CHOOSE c \in DigitChars : DigitValue[c] = d]

AllDigits(t) == Len(t) > 0 /\ \A i \in 1..Len(t) : t[i] \in DigitChars

\* the digits of t read as a decimal number
RECURSIVE DigitsValue(_)
DigitsValue(t) ==
    IF Len(t) = 0 THEN 0
    ELSE 10 * DigitsValue(SubSeq(t, 1, Len(t) - 1)) + DigitValue[t[Len(t)]]

Unsigned(t) == IF Len(t) > 0 /\ t[1] = "-" THEN Tail(t) ELSE t
Sign(t) == IF Len(t) > 0 /\ t[1] = "-" THEN -1 ELSE 1

\* the position of the decimal point in t, 0 when there is none
PointAt(t) == IF \E i \in 1..Len(t) : t[i] = "."
              THEN CHOOSE i \in 1..Len(t) : t[i] = "." /\ \A j \in 1..(i - 1) : t[j] # "."
              ELSE 0

\* the two leading fraction digits of f, as hundredths
Hundredths(f) ==
    (IF Len(f) >= 1 THEN 10 * DigitValue[f[1]] ELSE 0) + (IF Len(f) >= 2 THEN DigitValue[f[2]] ELSE 0)

\* int(text): [exc, val]; int(None) is a TypeError, a non-integer literal a ValueError
PyInt(text) ==
    IF text = None THEN [exc |-> "TypeError", val |-> 0]
    ELSE IF ~AllDigits(Unsigned(text)) THEN [exc |-> "ValueError", val |-> 0]
    ELSE [exc |-> "none", val |-> Sign(text) * DigitsValue(Unsigned(text))]

\* the digits of u before and after the decimal point at p (p = 0: no point)
WholePart(u, p) == IF p = 0 THEN u ELSE SubSeq(u, 1, p - 1)
FractionPart(u, p) == IF p = 0 THEN <<>> ELSE SubSeq(u, p + 1, Len(u))
\* the float whose sign is sign and whose digits are whole and frac
FloatOfParts(sign, whole, frac) ==
    IF /\ Len(whole) + Len(frac) > 0
       /\ \A i \in 1..Len(whole) : whole[i] \in DigitChars
       /\ \A i \in 1..Len(frac) : frac[i] \in DigitChars
    THEN [exc |-> "none", val |-> sign * (100 * DigitsValue(whole) + Hundredths(frac))]
    ELSE [exc |-> "ValueError", val |-> 0]
FloatOfUnsigned(sign, u, p) == FloatOfParts(sign, WholePart(u, p), FractionPart(u, p))

\* float(text), in hundredths: [exc, val]
PyFloat(text) ==
    IF text = None THEN [exc |-> "TypeError", val |-> 0]
    ELSE FloatOfUnsigned(Sign(text), Unsigned(text), PointAt(Unsigned(text)))

\* round(n / d) to the nearest integer, ties to even (n >= 0, d > 0)
RoundDiv(n, d) ==
    IF 2 * (n % d) < d THEN n \div d
    ELSE IF 2 * (n % d) > d THEN (n \div d) + 1
    ELSE IF (n \div d) % 2 = 0 THEN n \div d ELSE (n \div d) + 1

\* float(round((float(text) / float(60480)) * float(100), 2)), in hundredths
PercentOf(f) ==
    IF f.exc # "none" THEN f
    ELSE [exc |-> "none",
          val |-> IF f.val >= 0 THEN RoundDiv(f.val * 100, FilterLifeMax)
                  ELSE -RoundDiv((-f.val) * 100, FilterLifeMax)]
FilterLifePercent(text) == PercentOf(PyFloat(text))

\* bool(int(text))
BoolOf(i) == IF i.exc # "none" THEN i ELSE [exc |-> "none", val |-> (i.val # 0)]
PyBoolOfInt(text) == BoolOf(PyInt(text))

\* str(n) for an int n
RECURSIVE NatToText(_)
NatToText(n) == IF n < 10 THEN <<DigitChar[n]>> ELSE NatToText(n \div 10) \o <<DigitChar[n % 10]>>
PyStr(n) == IF n < 0 THEN <<"-">> \o NatToText(-n) ELSE NatToText(n)

\* int(x) for a number x = n/d: truncation toward zero
PyIntOfNumber(x) == IF x.n >= 0 THEN x.n \div x.d ELSE -((-x.n) \div x.d)

\* ------------------------------------------------------------------ dicts
\* dict.get(key)
DictGet(d, key) == IF key \in DOMAIN d THEN Some(d[key]) ELSE None
\* d[key] = value
DictSet(d, key, value) == [k \in (DOMAIN d) \cup {key} |-> IF k = key THEN value ELSE d[k]]
\* (variant: the delta replaces the dict instead of being merged into it)
DictUpdate_replace(d, delta) == delta
\* d.update(delta)
DictUpdate(d, delta) ==
    [k \in (DOMAIN d) \cup (DOMAIN delta) |-> IF k \in DOMAIN delta THEN delta[k] ELSE d[k]]

\* ---------------------------------------------------------------- decoder
Attribute(name, text) == [name |-> name, text |-> text, closed |-> TRUE]
Blob(body) == [quoted |-> FALSE, body |-> body]

\* xml_blob.replace("&gt;", ">").replace("&lt;", "<")
Unescape(blob) == [blob EXCEPT !.quoted = FALSE]

\* et.fromstring("<attributes>" + xml_blob + "</attributes>"): the children of
\* the root.  Quoted markup is character data, not elements; an attribute
\* element that is never closed is a parse error.
FromString(blob) ==
    IF blob.quoted THEN [exc |-> "none", children |-> <<>>]
    ELSE IF \E i \in 1..Len(blob.body) : ~blob.body[i].closed
    THEN [exc |-> "ParseError", children |-> <<>>]
    ELSE [exc |-> "none", children |-> blob.body]

\* try: result[key] = <conversion> / except ValueError: pass
TryAssign(result, key, conv) ==
    IF conv.exc = "none" THEN [exc |-> "none", result |-> DictSet(result, key, conv.val)]
    ELSE IF conv.exc = "ValueError" THEN [exc |-> "none", result |-> result]
    ELSE [exc |-> conv.exc, result |-> result]

\* (variant: the value of the NoWater attribute is not looked at)
IsNoWater_anyValue(attribute) == attribute.name = "NoWater"
\* attribute[0].text == "NoWater" and attribute[1].text == "1"
IsNoWater(attribute) == attribute.name = "NoWater" /\ attribute.text = <<"1">>
\* attribute[0].text == "WaterAdvise" and attribute[1].text == "1"
IsWaterAdvise(attribute) == attribute.name = "WaterAdvise" /\ attribute.text = <<"1">>

\* one turn of the loop over the attributes: the if / elif chain
DecodeAttribute(attribute, result) ==
    IF attribute.name = "FanMode"
    THEN TryAssign(result, "fan_mode", PyInt(attribute.text))
    ELSE IF attribute.name = "DesiredHumidity"
    THEN TryAssign(result, "desired_humidity", PyInt(attribute.text))
    ELSE IF attribute.name = "CurrentHumidity"
    THEN TryAssign(result, "current_humidity", PyFloat(attribute.text))
    ELSE IF IsNoWater(attribute)
    THEN [exc |-> "none", result |-> DictSet(result, "water_level", WaterLevel.Empty)]
    ELSE IF IsWaterAdvise(attribute)
    THEN [exc |-> "none", result |-> DictSet(result, "water_level", WaterLevel.Low)]
    ELSE IF attribute.name = "FilterLife"
    THEN TryAssign(result, "filter_life", FilterLifePercent(attribute.text))
    ELSE IF attribute.name = "ExpiredFilterTime"
    THEN TryAssign(result, "filter_expired", PyBoolOfInt(attribute.text))
    ELSE [exc |-> "none", result |-> result]

\* for attribute in attributes: ...; an exception ends the loop
RECURSIVE DecodeLoop(_, _, _)
\* after the turn for children[i]: its exception leaves the function, else on
DecodeNext(children, i, step) ==
    IF step.exc # "none" THEN [exc |-> step.exc, result |-> EmptyDict]
    ELSE DecodeLoop(children, i + 1, step.result)
DecodeLoop(children, i, result) ==
    IF i > Len(children) THEN [exc |-> "none", result |-> result]
    ELSE DecodeNext(children, i, DecodeAttribute(children[i], result))

\* result["water_level"] = int(2) and the loop, unless the parser raised
DecodeParsed(parsed) ==
    IF parsed.exc # "none" THEN [exc |-> parsed.exc, result |-> EmptyDict]
    ELSE DecodeLoop(parsed.children, 1, DictSet(EmptyDict, "water_level", WaterLevel.Good))
\* attribute_xml_to_dict(xml_blob): [exc, result]; result is the dict returned
\* when exc = "none", and nothing is returned otherwise
attribute_xml_to_dict(blob) == DecodeParsed(FromString(Unescape(blob)))

\* ----------------------------------------------------------------- facade
\* property fan_mode: self._attributes.get('fan_mode')
fan_mode(a) == DictGet(a, "fan_mode")

\* the RPCs of the device collaborator, as entries of a call's RPC log
GetAttributesCall == [rpc |-> "GetAttributes", attributeList |-> None]
SetAttributesCall(blob) == [rpc |-> "SetAttributes", attributeList |-> Some(blob)]

\* What a call did: the fields it leaves behind, the RPCs it issued in order,
\* how it ended ("return" or the exception that left it), the value returned,
\* the dict decoded during the call, and the number of times the base push
\* handler was entered.
Effect(a, s, rpcs, outcome, result, delta) ==
    [attributes |-> a, state |-> s, rpcs |-> rpcs, outcome |-> outcome,
     result |-> result, delta |-> delta, base |-> 0]

\* the call returns, having cached a2: self._state = self.fan_mode
Returned(a2, rpcs, result, delta) == Effect(a2, fan_mode(a2), rpcs, "return", result, delta)

\* (variant: the decoded dict is merged into the cache instead of replacing it)
StoreDecoded_merge(a, s, d) ==
    IF d.exc # "none" THEN Effect(a, s, <<GetAttributesCall>>, d.exc, None, None)
    ELSE Returned(DictUpdate(a, d.result), <<GetAttributesCall>>, None, Some(d.result))
\* (variant: the cache is emptied before the reply is decoded)
StoreDecoded_clear(a, s, d) ==
    IF d.exc # "none" THEN Effect(EmptyDict, s, <<GetAttributesCall>>, d.exc, None, None)
    ELSE Returned(d.result, <<GetAttributesCall>>, None, Some(d.result))
\* self._attributes = attribute_xml_to_dict(resp); self._state = self.fan_mode
\* d is what the decoder did: an exception leaves the fields as they were
StoreDecoded(a, s, d) ==
    IF d.exc # "none" THEN Effect(a, s, <<GetAttributesCall>>, d.exc, None, None)
    ELSE Returned(d.result, <<GetAttributesCall>>, None, Some(d.result))

\* Humidifier.update_attributes; reply is what GetAttributes does: it raises
\* (ok = FALSE) or returns {'attributeList': reply.attributeList}
update_attributes(a, s, reply) ==
    IF ~reply.ok THEN Effect(a, s, <<GetAttributesCall>>, "RPCError", None, None)
    ELSE StoreDecoded(a, s, attribute_xml_to_dict(reply.attributeList))

\* (variant: the fan mode itself is returned)
StateValue_raw(s) == IF s = None THEN 1 ELSE s[1]
\* int(self._state != FanMode.Off)
StateValue(s) == IF s # Some(FanMode.Off) THEN 1 ELSE 0

\* (variant: an unset state does not trigger an update)
NeedsUpdate_forceOnly(force_update, s) == force_update
\* force_update or self._state is None
NeedsUpdate(force_update, s) == force_update \/ s = None

\* u is what update_attributes did: its exception leaves get_state too
ReturnState(u) ==
    IF u.outcome # "return" THEN u ELSE [u EXCEPT !.result = Some(StateValue(u.state))]
\* Humidifier.get_state
get_state(a, s, force_update, reply) ==
    IF NeedsUpdate(force_update, s)
    THEN ReturnState(update_attributes(a, s, reply))
    ELSE Effect(a, s, <<>>, "return", Some(StateValue(s)), None)

\* quote_xml of api.xsd.device: markup characters are written as entities
quote_xml(blob) == [blob EXCEPT !.quoted = TRUE]

\* g is what get_state(True) did after blob was sent; the setter returns None
AfterSend(blob, g) == [g EXCEPT !.rpcs = <<SetAttributesCall(blob)>> \o @, !.result = None]
\* (the same with the refresh issued first)
BeforeSend(blob, setOk, g) ==
    IF g.outcome # "return" THEN g
    ELSE [g EXCEPT !.rpcs = @ \o <<SetAttributesCall(blob)>>, !.result = None,
                   !.outcome = IF setOk THEN "return" ELSE "RPCError"]

\* (variant: the refresh is issued before the attributes are sent)
SendAttributes_refreshFirst(a, s, blob, setOk, reply) ==
    BeforeSend(blob, setOk, get_state(a, s, TRUE, reply))
\* self.deviceevent.SetAttributes(attributeList=...); self.get_state(True)
\* setOk = FALSE: SetAttributes raises
SendAttributes(a, s, blob, setOk, reply) ==
    IF ~setOk
    THEN Effect(a, s, <<SetAttributesCall(blob)>>, "RPCError", None, None)
    ELSE AfterSend(blob, get_state(a, s, TRUE, reply))

\* (variant: the argument is sent under the other attribute's name)
FanModeAttribute_wrongName(mode) == Attribute("DesiredHumidity", PyStr(PyIntOfNumber(mode)))
\* "<attribute><name>FanMode</name><value>" + str(int(fan_mode)) + "</value></attribute>"
FanModeAttribute(mode) == Attribute("FanMode", PyStr(PyIntOfNumber(mode)))
\* "<attribute><name>DesiredHumidity</name><value>" + str(int(desired_humidity)) + ...
DesiredHumidityAttribute(level) == Attribute("DesiredHumidity", PyStr(PyIntOfNumber(level)))

\* Humidifier.set_fan_mode
set_fan_mode(a, s, mode, setOk, reply) ==
    SendAttributes(a, s, quote_xml(Blob(<<FanModeAttribute(mode)>>)), setOk, reply)
\* Humidifier.set_state
set_state(a, s, value, setOk, reply) == set_fan_mode(a, s, value, setOk, reply)
\* Humidifier.set_humidity
set_humidity(a, s, level, setOk, reply) ==
    SendAttributes(a, s, quote_xml(Blob(<<DesiredHumidityAttribute(level)>>)), setOk, reply)
\* Humidifier.set_fan_mode_and_humidity
set_fan_mode_and_humidity(a, s, mode, level, setOk, reply) ==
    SendAttributes(a, s, quote_xml(Blob(<<FanModeAttribute(mode), DesiredHumidityAttribute(level)>>)),
                   setOk, reply)

\* Switch.subscription_update, the base handler: it lies outside this file.
\* It does not know the attribute cache; it may rewrite the inherited binary
\* state, and it returns whether it handled the event.
Switch_subscription_update(a, s, base) ==
    [Effect(a, IF base.write = None THEN s ELSE base.write[1], <<>>, "return",
            Some(base.handled), None) EXCEPT !.base = 1]

\* (variant: every kind of event is taken for an attribute list)
IsAttributeList_any(kind) == TRUE
\* _type == "attributeList"
IsAttributeList(kind) == kind = "attributeList"

\* self._attributes.update(attribute_xml_to_dict(_params));
\* self._state = self.fan_mode; return True
\* d is what the decoder did: an exception leaves the fields as they were
MergeDecoded(a, s, d) ==
    IF d.exc # "none" THEN Effect(a, s, <<>>, d.exc, None, None)
    ELSE Returned(DictUpdate(a, d.result), <<>>, Some(TRUE), Some(d.result))
\* Humidifier.subscription_update
subscription_update(a, s, kind, params, base) ==
    IF IsAttributeList(kind)
    THEN MergeDecoded(a, s, attribute_xml_to_dict(params))
    ELSE Switch_subscription_update(a, s, base)

\* ----------------------------------------------------------------- inputs
BoundedSeq(S, n) == UNION {[1..k -> S] : k \in 0..n}

\* what the decoder is tried on: every pairing of these names and texts,
\* and an attribute element whose end tag is missing
DecodeNames == {"FanMode", "DesiredHumidity", "CurrentHumidity", "NoWater", "WaterAdvise",
                "FilterLife", "ExpiredFilterTime", "Brightness"}
DecodeTexts == {<<"0">>, <<"1">>, <<"4", "2", ".", "5">>, <<"a", "b", "c">>, None,
                <<"3", "0", "2", "4", "0">>}
Unclosed == [name |-> "FanMode", text |-> <<"3">>, closed |-> FALSE]
DecodeChunks == {Attribute(n, t) : n \in DecodeNames, t \in DecodeTexts} \cup {Unclosed}
DecodeBlobs == {[quoted |-> q, body |-> b] : q \in BOOLEAN, b \in BoundedSeq(DecodeChunks, MaxAttrs)}

\* what the device answers and pushes to the facade (its markup arrives quoted)
DeviceChunks == {Attribute("FanMode", <<"0">>), Attribute("FanMode", <<"3">>),
                 Attribute("CurrentHumidity", <<"4", "2", ".", "5">>),
                 Attribute("NoWater", <<"1">>), Unclosed}
DeviceBlobs == {quote_xml(Blob(b)) : b \in BoundedSeq(DeviceChunks, MaxFetched)}
Replies == {[ok |-> FALSE, attributeList |-> quote_xml(Blob(<<>>))]}
           \cup {[ok |-> TRUE, attributeList |-> b] : b \in DeviceBlobs}

\* one reply stands for all where the reply is never asked for
RepliesIf(asked) == IF asked THEN Replies ELSE {[ok |-> FALSE, attributeList |-> quote_xml(Blob(<<>>))]}

\* arguments of the setters: 4 and 5/2 for the fan mode, 7/2 for the humidity
FanModeArgs == {[n |-> 4, d |-> 1], [n |-> 5, d |-> 2]}
HumidityArgs == {[n |-> 7, d |-> 2]}
PushKinds == {"attributeList", "BinaryState"}
\* payloads of the events of another kind
OtherParams == {b \in DeviceBlobs : Len(b.body) <= 1}
\* the base handler reports a result, and leaves the binary state or sets it to 1
BaseBehaviours == [handled : BOOLEAN, write : {None, Some(Some(1))}]
NoBase == [handled |-> FALSE, write |-> None]

\* the XML of the blob is malformed: some element is never closed
Malformed(blob) == \E i \in 1..Len(blob.body) : ~blob.body[i].closed

\* The record of a call: its name and arguments, what the collaborators did
\* during it (malformed: the blob handed to the facade, by the reply or by the
\* push, was malformed XML; handled: what the base handler answers), the fan
\* mode and the state cached when it began, and its effect.
NoArgs == [force |-> FALSE, mode |-> None, level |-> None, kind |-> "",
           malformed |-> FALSE, handled |-> FALSE]
NoCall == [op |-> "", args |-> NoArgs, before |-> [fan_mode |-> None, state |-> None],
           rpcs |-> <<>>, outcome |-> "", result |-> None, delta |-> None, base |-> 0]
CallRecord(op, args, e) ==
    [op |-> op, args |-> args, before |-> [fan_mode |-> fan_mode(attributes), state |-> state],
     rpcs |-> e.rpcs, outcome |-> e.outcome, result |-> e.result, delta |-> e.delta,
     base |-> e.base]
Fetched(reply) == reply.ok /\ Malformed(reply.attributeList)

\* ---------------------------------------------------------------- actions
\* the call leaves the facade as its effect e says
Done(op, args, effect) == \E e \in {effect} :
    /\ attributes' = e.attributes
    /\ state' = e.state
    /\ call' = CallRecord(op, args, e)
    /\ basePushed' = (basePushed \/ e.base > 0)
    /\ UNCHANGED <<phase, xml_blob, decoded>>

\* Humidifier.__init__: Switch.__init__, self._attributes = {}, update_attributes().
\* An exception leaves no object behind.
Construct ==
    /\ phase = "new"
    /\ \E reply \in Replies :
         \E e \in {update_attributes(EmptyDict, None, reply)} :
            /\ phase' = IF e.outcome = "return" THEN "live" ELSE "new"
            /\ attributes' = IF e.outcome = "return" THEN e.attributes ELSE EmptyDict
            /\ state' = IF e.outcome = "return" THEN e.state ELSE None
            /\ call' = CallRecord("__init__", [NoArgs EXCEPT !.malformed = Fetched(reply)], e)
            /\ UNCHANGED <<basePushed, xml_blob, decoded>>

Refresh ==
    /\ phase = "live"
    /\ \E reply \in Replies :
         Done("update_attributes", [NoArgs EXCEPT !.malformed = Fetched(reply)],
              update_attributes(attributes, state, reply))

OnPush ==
    /\ phase = "live"
    /\ \E kind \in PushKinds :
       \E params \in (IF kind = "attributeList" THEN DeviceBlobs ELSE OtherParams),
          base \in (IF kind = "attributeList" THEN {NoBase} ELSE BaseBehaviours) :
         Done("subscription_update",
              [NoArgs EXCEPT !.kind = kind, !.malformed = Malformed(params), !.handled = base.handled],
              subscription_update(attributes, state, kind, params, base))

GetState ==
    /\ phase = "live"
    /\ \E force_update \in BOOLEAN :
       \E reply \in RepliesIf(NeedsUpdate(force_update, state)) :
         Done("get_state", [NoArgs EXCEPT !.force = force_update],
              get_state(attributes, state, force_update, reply))

SetState ==
    /\ phase = "live"
    /\ \E value \in FanModeArgs, setOk \in BOOLEAN :
       \E reply \in RepliesIf(setOk) :
         Done("set_state", [NoArgs EXCEPT !.mode = Some(value)],
              set_state(attributes, state, value, setOk, reply))

SetFanMode ==
    /\ phase = "live"
    /\ \E mode \in FanModeArgs, setOk \in BOOLEAN :
       \E reply \in RepliesIf(setOk) :
         Done("set_fan_mode", [NoArgs EXCEPT !.mode = Some(mode)],
              set_fan_mode(attributes, state, mode, setOk, reply))

SetHumidity ==
    /\ phase = "live"
    /\ \E level \in HumidityArgs, setOk \in BOOLEAN :
       \E reply \in RepliesIf(setOk) :
         Done("set_humidity", [NoArgs EXCEPT !.level = Some(level)],
              set_humidity(attributes, state, level, setOk, reply))

SetFanModeAndHumidity ==
    /\ phase = "live"
    /\ \E mode \in FanModeArgs, level \in HumidityArgs, setOk \in BOOLEAN :
       \E reply \in RepliesIf(setOk) :
         Done("set_fan_mode_and_humidity", [NoArgs EXCEPT !.mode = Some(mode), !.level = Some(level)],
              set_fan_mode_and_humidity(attributes, state, mode, level, setOk, reply))

Init ==
    /\ phase = "new"
    /\ attributes = EmptyDict
    /\ state = None
    /\ call = NoCall
    /\ basePushed = FALSE
    /\ xml_blob = Blob(<<>>)
    /\ decoded = None

Next ==
    \/ Construct
    \/ Refresh
    \/ OnPush
    \/ GetState
    \/ SetState
    \/ SetFanMode
    \/ SetHumidity
    \/ SetFanModeAndHumidity

Spec == Init /\ [][Next]_vars

\* The decoder on its own: a blob is drawn, attribute_xml_to_dict is applied.
InitDecode ==
    /\ phase = "new"
    /\ attributes = EmptyDict
    /\ state = None
    /\ call = NoCall
    /\ basePushed = FALSE
    /\ xml_blob \in DecodeBlobs
    /\ decoded = None

Decode ==
    /\ decoded = None
    /\ decoded' = Some(attribute_xml_to_dict(xml_blob))
    /\ UNCHANGED <<phase, attributes, state, call, basePushed, xml_blob>>

NextDecode == Decode

SpecDecode == InitDecode /\ [][NextDecode]_vars

\* ================================================================= claims
Setters == {"set_state", "set_fan_mode", "set_humidity", "set_fan_mode_and_humidity"}
\* the call just made was a refresh, or an attributeList push, that returned
Refreshed(c) == c.op = "update_attributes" /\ c.outcome = "return"
PushedList(c) == c.op = "subscription_update" /\ c.args.kind = "attributeList"
Humidity425 == 42 * 100 + 50

C2_PushMerges ==
    [][(PushedList(call') /\ call'.outcome = "return") =>
         LET d == call'.delta[1]
         IN /\ "water_level" \in DOMAIN d
            /\ DOMAIN attributes' = (DOMAIN attributes) \cup (DOMAIN d)
            /\ \A k \in DOMAIN d : attributes'[k] = d[k]
            /\ \A k \in (DOMAIN attributes) \ (DOMAIN d) : attributes'[k] = attributes[k]
            /\ state' = fan_mode(attributes')
            /\ call'.result = Some(TRUE)]_vars

\* a push holding only CurrentHumidity=42.5 on a cache with fan_mode = 3
C2_Witness ==
    /\ PushedList(call) /\ call.outcome = "return"
    /\ call.before.fan_mode = Some(FanMode.Medium)
    /\ call.delta = Some(("current_humidity" :> Humidity425) @@ ("water_level" :> WaterLevel.Good))
    /\ fan_mode(attributes) = Some(FanMode.Medium)
    /\ DictGet(attributes, "current_humidity") = Some(Humidity425)

\* C3: as long as no push was handed to the base handler, the cached state is
\* the cached fan_mode, and get_state returns 0 or 1: 0 when the cached
\* fan_mode is 0 and 1 when it is anything else.
C3_StateAgreesWithFanMode ==
    (phase = "live" /\ ~basePushed) =>
        /\ state = fan_mode(attributes)
        /\ (call.op = "get_state" /\ call.outcome = "return") =>
              /\ call.result \in {Some(0), Some(1)}
              /\ (fan_mode(attributes) = Some(FanMode.Off)) => call.result = Some(0)
              /\ (fan_mode(attributes) # Some(FanMode.Off)) => call.result = Some(1)

\* get_state returned 0 on a cache whose fan_mode is 0
C3_Witness ==
    /\ ~basePushed
    /\ call.op = "get_state" /\ call.outcome = "return"
    /\ fan_mode(attributes) = Some(FanMode.Off)
    /\ call.result = Some(0)

\* C4: get_state issues exactly one GetAttributes when force_update is true or
\* the cached state is unset, none otherwise, and what it returns is computed
\* from the state it leaves behind.
C4_GetStateRefreshesOnce ==
    [][call'.op = "get_state" =>
         /\ call'.rpcs = (IF call'.args.force \/ state = None
                          THEN <<GetAttributesCall>> ELSE <<>>)
         /\ call'.outcome = "return" =>
               call'.result = Some(IF state' # Some(FanMode.Off) THEN 1 ELSE 0)]_vars

\* get_state(False) on an unset state fetched once and returned
C4_Witness ==
    /\ call.op = "get_state" /\ ~call.args.force
    /\ call.before.state = None
    /\ call.rpcs = <<GetAttributesCall>>
    /\ call.outcome = "return"

\* C5: a setter issues SetAttributes first and once; when it succeeds exactly
\* one GetAttributes follows; when it fails the call ends with that failure,
\* nothing else is issued and the cache and the state are as before.  set_state
\* sends what set_fan_mode sends for the same argument.
C5_SetThenRefresh ==
    [][call'.op \in Setters =>
         /\ Len(call'.rpcs) \in {1, 2}
         /\ call'.rpcs[1].rpc = "SetAttributes"
         /\ Len(call'.rpcs) = 2 => call'.rpcs[2] = GetAttributesCall
         /\ call'.outcome = "return" => Len(call'.rpcs) = 2
         /\ Len(call'.rpcs) = 1 =>
               (call'.outcome = "RPCError" /\ attributes' = attributes /\ state' = state)
         /\ call'.op \in {"set_state", "set_fan_mode"} =>
               call'.rpcs[1] =
                  SetAttributesCall(quote_xml(Blob(<<Attribute("FanMode",
                     PyStr(PyIntOfNumber(call'.args.mode[1])))>>)))]_vars

\* set_state sent its attribute, refreshed and returned
C5_Witness ==
    /\ call.op = "set_state"
    /\ Len(call.rpcs) = 2 /\ call.rpcs[1].rpc = "SetAttributes" /\ call.rpcs[2].rpc = "GetAttributes"
    /\ call.outcome = "return"

\* the water level the last NoWater=1 / WaterAdvise=1 of a body asks for
WaterSignals(body) ==
    {i \in 1..Len(body) : body[i].name \in {"NoWater", "WaterAdvise"} /\ body[i].text = <<"1">>}
LastWaterLevel(body) ==
    IF WaterSignals(body) = {} THEN 2
    ELSE LET last == CHOOSE i \in WaterSignals(body) : \A j \in WaterSignals(body) : j <= i
         IN IF body[last].name = "NoWater" THEN 0 ELSE 1

\* C6: a decode that returns yields the water_level of the last NoWater=1 or
\* WaterAdvise=1 attribute in document order (0 for NoWater, 1 for
\* WaterAdvise), and 2 when there is none; another value of these attributes
\* changes nothing.
C6_WaterLevelLastWins ==
    (decoded # None /\ decoded[1].exc = "none") =>
        /\ "water_level" \in DOMAIN decoded[1].result
        /\ decoded[1].result["water_level"] \in {0, 1, 2}
        /\ decoded[1].result["water_level"] = LastWaterLevel(xml_blob.body)

\* NoWater=1 then WaterAdvise=1 decoded to Low
C6_Witness ==
    /\ decoded # None /\ decoded[1].exc = "none"
    /\ xml_blob.body = <<Attribute("NoWater", <<"1">>), Attribute("WaterAdvise", <<"1">>)>>
    /\ decoded[1].result["water_level"] = WaterLevel.Low

\* C7: a refresh or an attributeList push handed malformed XML ends with the
\* parse error and leaves the cache and the state exactly as they were.
C7_ParseErrorLeavesCache ==
    [][((call'.op = "update_attributes" \/ PushedList(call')) /\ call'.args.malformed) =>
         /\ call'.outcome = "ParseError"
         /\ attributes' = attributes
         /\ state' = state]_vars

\* a malformed push on a cache with fan_mode = 3 failed and left fan_mode = 3
C7_Witness ==
    /\ PushedList(call) /\ call.args.malformed
    /\ call.outcome = "ParseError"
    /\ call.before.fan_mode = Some(FanMode.Medium)
    /\ fan_mode(attributes) = Some(FanMode.Medium)

\* the key a recognized attribute is stored under, and the conversion it gets
KeyOf(name) ==
    CASE name = "FanMode" -> "fan_mode"
      [] name = "DesiredHumidity" -> "desired_humidity"
      [] name = "CurrentHumidity" -> "current_humidity"
      [] name = "FilterLife" -> "filter_life"
      [] name = "ExpiredFilterTime" -> "filter_expired"
Converted(attribute) ==
    CASE attribute.name \in {"FanMode", "DesiredHumidity"} -> PyInt(attribute.text)
      [] attribute.name = "CurrentHumidity" -> PyFloat(attribute.text)
      [] attribute.name = "FilterLife" -> FilterLifePercent(attribute.text)
      [] attribute.name = "ExpiredFilterTime" -> PyBoolOfInt(attribute.text)
Recognized == {"FanMode", "DesiredHumidity", "CurrentHumidity", "FilterLife", "ExpiredFilterTime"}
\* the positions of body whose attribute is stored under key and converts
Good(body, key) ==
    {i \in 1..Len(body) : body[i].name \in Recognized /\ KeyOf(body[i].name) = key
                            /\ Converted(body[i]).exc = "none"}

\* C8 (as stated): the decode of well-formed XML never raises; a recognized
\* attribute whose value does not convert (non-numeric, or empty) is left out,
\* and every attribute that converts is in the delta.
C8_BadValueIsDropped ==
    (decoded # None /\ ~Malformed(xml_blob)) =>
        /\ decoded[1].exc = "none"
        /\ \A key \in {KeyOf(n) : n \in Recognized} :
              IF Good(xml_blob.body, key) = {}
              THEN key \notin DOMAIN decoded[1].result
              ELSE /\ key \in DOMAIN decoded[1].result
                   /\ LET last == CHOOSE i \in Good(xml_blob.body, key) :
                                     \A j \in Good(xml_blob.body, key) : j <= i
                      IN decoded[1].result[key] = Converted(xml_blob.body[last]).val

\* C9: a push of another kind is not decoded and leaves the cache alone; the
\* base handler is entered once and its answer is returned.  An attributeList
\* push never enters the base handler.
C9_OtherKindsDelegated ==
    [][call'.op = "subscription_update" =>
         IF call'.args.kind = "attributeList"
         THEN call'.base = 0
         ELSE /\ call'.delta = None
              /\ call'.outcome = "return"
              /\ attributes' = attributes
              /\ call'.base = 1
              /\ call'.result = Some(call'.args.handled)]_vars

\* a BinaryState push with a malformed payload went to the base handler, which
\* answered False
C9_Witness ==
    /\ call.op = "subscription_update" /\ call.args.kind = "BinaryState"
    /\ call.args.malformed
    /\ call.base = 1
    /\ call.result = Some(FALSE)

\* the attributes of the blob a setter sent, read back
Sent(c) == Unescape(c.rpcs[1].attributeList[1]).body
\* element i of the sent blob is complete, carries name and the integer n
Carries(body, i, name, n) ==
    /\ body[i].closed
    /\ body[i].name = name
    /\ PyInt(body[i].text) = [exc |-> "none", val |-> n]
\* the integer part of the number x
IntegerPart(x) == IF x.n >= 0 THEN x.n \div x.d ELSE -((-x.n) \div x.d)

\* C10: set_fan_mode sends the single attribute FanMode=int(m), set_humidity
\* the single attribute DesiredHumidity=int(h), set_fan_mode_and_humidity the
\* two of them in that order, in one blob.
C10_SetterFragments ==
    /\ call.op \in {"set_state", "set_fan_mode"} =>
          /\ Len(Sent(call)) = 1
          /\ Carries(Sent(call), 1, "FanMode", IntegerPart(call.args.mode[1]))
    /\ call.op = "set_humidity" =>
          /\ Len(Sent(call)) = 1
          /\ Carries(Sent(call), 1, "DesiredHumidity", IntegerPart(call.args.level[1]))
    /\ call.op = "set_fan_mode_and_humidity" =>
          /\ Len(Sent(call)) = 2
          /\ Carries(Sent(call), 1, "FanMode", IntegerPart(call.args.mode[1]))
          /\ Carries(Sent(call), 2, "DesiredHumidity", IntegerPart(call.args.level[1]))

\* set_fan_mode_and_humidity(2.5, 3.5) sent FanMode=2 and DesiredHumidity=3
C10_Witness ==
    /\ call.op = "set_fan_mode_and_humidity"
    /\ call.args.mode = Some([n |-> 5, d |-> 2])
    /\ call.args.level = Some([n |-> 7, d |-> 2])
    /\ Sent(call) = <<Attribute("FanMode", <<"2">>), Attribute("DesiredHumidity", <<"3">>)>>

====
